---- MODULE Spec2Model ----
(***************************************************************************)
(* CreatePullRequestBuilder (src/api/pulls/create.rs): a builder that      *)
(* accumulates the fields of a "create pull request" call, serializes      *)
(* itself with the derived serde::Serialize and posts the result through   *)
(* the handler's Octocrab client.                                          *)
(***************************************************************************)
EXTENDS Integers, Sequences, FiniteSets, TLC

(* ---- bounds and input domains ---- *)

\* the longest chain of configuration calls explored on one builder
MaxCalls == 3

\* Option<T>: None is the empty sequence, Some(v) a one-element sequence
None == <<>>
Some(v) == <<v>>

\* PullRequestHandler contexts (owner, repo) the builder may be created from
Handlers ==
    { [owner |-> "rust-lang", repo |-> "rust"],
      [owner |-> "owner", repo |-> "repo"] }

Titles == {"test-pr", "title"}
Heads == {"master", "user:branch"}
Bases == {"branch", "main"}

\* arguments of body(): impl Into<Option<A>>, A: Into<String>
BodyArgs == {None, Some("testing..."), Some("hello world!")}
\* arguments of draft() and maintainer_can_modify(): impl Into<Option<bool>>
BoolArgs == {None, Some(TRUE), Some(FALSE)}

\* what the transport may answer to one post: an entity or one of its failures
TransportResults ==
    { <<"Ok", "PullRequest">>,
      <<"Err", "Network">>,
      <<"Err", "GitHub">>,
      <<"Err", "Serde">> }

RequiredFields == {"title", "head", "base"}
OptionalFields == {"body", "draft", "maintainer_can_modify"}

(* ---- JSON values produced by serde_json ---- *)

JNull == <<"null">>
JString(s) == <<"string", s>>
JBool(b) == <<"bool", b>>

(* ---- state ---- *)

VARIABLES
    builder,    \* the CreatePullRequestBuilder value (the struct's fields)
    phase,      \* "accumulating" while the caller owns it, "sent" once send(self) took it
    posts,      \* the post calls received by the transport, in order
    transport,  \* what the transport answered to the post (None while pending)
    result,     \* what send() returned to its caller (None while pending)
    given,      \* the arguments new() was called with
    calls       \* the configuration calls applied so far: <<method, argument>>

vars == <<builder, phase, posts, transport, result, given, calls>>

(* ---- the builder's methods ---- *)

\* impl Into<String> for the string-like arguments: an owned copy of the text
IntoString(s) == s

new(handler, title, head, base) ==
    [ handler |-> handler,
      title |-> IntoString(title),
      head |-> IntoString(head),
      base |-> IntoString(base),
      body |-> None,
      draft |-> None,
      maintainer_can_modify |-> None ]

\* Option::map(A::into)
MapIntoString(opt) == IF opt = None THEN None ELSE Some(IntoString(opt[1]))

body_keepsOld(self, arg) ==
    IF arg = None THEN self ELSE [self EXCEPT !.body = MapIntoString(arg)]

body_onlyOnce(self, arg) ==
    IF self.body = None THEN [self EXCEPT !.body = MapIntoString(arg)] ELSE self

body_clobbersTitle(self, arg) ==
    IF arg = None
    THEN [self EXCEPT !.body = None]
    ELSE [self EXCEPT !.body = MapIntoString(arg), !.title = arg[1]]

body(self, arg) == [self EXCEPT !.body = MapIntoString(arg)]

draft_resetsMaintainer(self, arg) ==
    [self EXCEPT !.draft = arg, !.maintainer_can_modify = None]

draft(self, arg) == [self EXCEPT !.draft = arg]

maintainer_can_modify(self, arg) == [self EXCEPT !.maintainer_can_modify = arg]

(* ---- #[derive(serde::Serialize)] ---- *)

\* Option<String>: serialize_none gives null, serialize_some the string
SerializeOptString(opt) == IF opt = None THEN JNull ELSE JString(opt[1])
\* Option<bool>
SerializeOptBool(opt) == IF opt = None THEN JNull ELSE JBool(opt[1])

Serialize_dropsDraft(self) ==
    [ k \in (RequiredFields \cup {"body", "maintainer_can_modify"}) |->
        CASE k = "title" -> JString(self.title)
          [] k = "head" -> JString(self.head)
          [] k = "base" -> JString(self.base)
          [] k = "body" -> SerializeOptString(self.body)
          [] k = "maintainer_can_modify" -> SerializeOptBool(self.maintainer_can_modify) ]

\* the derive emits every field that is not #[serde(skip)], in declaration
\* order; only handler carries an attribute
Serialize(self) ==
    [ k \in (RequiredFields \cup OptionalFields) |->
        CASE k = "title" -> JString(self.title)
          [] k = "head" -> JString(self.head)
          [] k = "base" -> JString(self.base)
          [] k = "body" -> SerializeOptString(self.body)
          [] k = "draft" -> SerializeOptBool(self.draft)
          [] k = "maintainer_can_modify" -> SerializeOptBool(self.maintainer_can_modify) ]

(* ---- send ---- *)

url_swapped(handler) == "/repos/" \o handler.repo \o "/" \o handler.owner \o "/pulls"

\* format!("/repos/{owner}/{repo}/pulls", ...)
url(handler) == "/repos/" \o handler.owner \o "/" \o handler.repo \o "/pulls"

(* ---- replaying a chain of calls ---- *)

Apply(self, call) ==
    CASE call[1] = "body" -> body(self, call[2])
      [] call[1] = "draft" -> draft(self, call[2])
      [] call[1] = "maintainer_can_modify" -> maintainer_can_modify(self, call[2])

RECURSIVE Replay(_, _)
Replay(self, cs) ==
    IF cs = <<>> THEN self ELSE Replay(Apply(self, Head(cs)), Tail(cs))

(* ---- initial state: the builder as new() returns it ---- *)

Init ==
    \E h \in Handlers, t \in Titles, hd \in Heads, b \in Bases :
        /\ given = [handler |-> h, title |-> t, head |-> hd, base |-> b]
        /\ builder = new(h, t, hd, b)
        /\ phase = "accumulating"
        /\ posts = <<>>
        /\ transport = None
        /\ result = None
        /\ calls = <<>>

(* ---- actions ---- *)

\* .body(arg): takes the builder by value and hands it back
Body ==
    \E arg \in BodyArgs :
        /\ phase = "accumulating"
        /\ Len(calls) < MaxCalls
        /\ builder' = body(builder, arg)
        /\ calls' = Append(calls, <<"body", arg>>)
        /\ UNCHANGED <<phase, posts, transport, result, given>>

\* .draft(arg)
Draft ==
    \E arg \in BoolArgs :
        /\ phase = "accumulating"
        /\ Len(calls) < MaxCalls
        /\ builder' = draft(builder, arg)
        /\ calls' = Append(calls, <<"draft", arg>>)
        /\ UNCHANGED <<phase, posts, transport, result, given>>

\* .maintainer_can_modify(arg)
MaintainerCanModify ==
    \E arg \in BoolArgs :
        /\ phase = "accumulating"
        /\ Len(calls) < MaxCalls
        /\ builder' = maintainer_can_modify(builder, arg)
        /\ calls' = Append(calls, <<"maintainer_can_modify", arg>>)
        /\ UNCHANGED <<phase, posts, transport, result, given>>

Send_retries ==
    /\ phase = "accumulating"
    /\ posts' = posts \o
                << [path |-> url(builder.handler), payload |-> Serialize(builder)],
                   [path |-> url(builder.handler), payload |-> Serialize(builder)] >>
    /\ phase' = "sent"
    /\ UNCHANGED <<builder, transport, result, given, calls>>

Send_borrows ==
    /\ phase = "accumulating"
    /\ Len(posts) < 2
    /\ posts' = Append(posts, [path |-> url(builder.handler),
                               payload |-> Serialize(builder)])
    /\ UNCHANGED <<builder, phase, transport, result, given, calls>>

\* .send(): consumes the builder, builds the url and calls post once; the
\* future is then suspended on the transport
Send ==
    /\ phase = "accumulating"
    /\ posts' = Append(posts, [path |-> url(builder.handler),
                               payload |-> Serialize(builder)])
    /\ phase' = "sent"
    /\ UNCHANGED <<builder, transport, result, given, calls>>

Await_swallows ==
    \E r \in TransportResults :
        /\ phase = "sent"
        /\ transport = None
        /\ transport' = Some(r)
        /\ result' = IF r[1] = "Err" THEN Some(<<"Ok", "PullRequest">>) ELSE Some(r)
        /\ UNCHANGED <<builder, phase, posts, given, calls>>

\* the transport answers the post and send() returns that answer
Await ==
    \E r \in TransportResults :
        /\ phase = "sent"
        /\ transport = None
        /\ transport' = Some(r)
        /\ result' = Some(r)
        /\ UNCHANGED <<builder, phase, posts, given, calls>>

Next ==
    \/ Body
    \/ Draft
    \/ MaintainerCanModify
    \/ Send
    \/ Await

Spec == Init /\ [][Next]_vars

(* ---- helpers over the call history ---- *)

\* index of the last call of method m in cs, 0 when m was never called
LastIndex(cs, m) ==
    LET is == {i \in 1..Len(cs) : cs[i][1] = m}
    IN IF is = {} THEN 0 ELSE CHOOSE i \in is : \A j \in is : j <= i

NeverConfigured(m) == LastIndex(calls, m) = 0

\* cs without its i-th call
RemoveAt(cs, i) == SubSeq(cs, 1, i - 1) \o SubSeq(cs, i + 1, Len(cs))

\* cs without any call of method m
RECURSIVE Without(_, _)
Without(cs, m) ==
    IF cs = <<>> THEN <<>>
    ELSE IF Head(cs)[1] = m THEN Without(Tail(cs), m)
    ELSE <<Head(cs)>> \o Without(Tail(cs), m)

\* the last call of each configured method, in the fixed order body, draft,
\* maintainer_can_modify
LastOf(cs, m) == IF LastIndex(cs, m) = 0 THEN <<>> ELSE <<cs[LastIndex(cs, m)]>>
LastCalls(cs) ==
    LastOf(cs, "body") \o LastOf(cs, "draft") \o LastOf(cs, "maintainer_can_modify")

Fresh == new(given.handler, given.title, given.head, given.base)

AllSet ==
    /\ builder.body # None
    /\ builder.draft # None
    /\ builder.maintainer_can_modify # None

(* ---- C1 ---- *)

\* C1: an optional field that was never configured has no key in the
\* serialized payload, and a builder with only the required fields serializes
\* to exactly the keys title, head, base.
C1_OptionalFieldOmission ==
    /\ \A m \in OptionalFields :
          NeverConfigured(m) => m \notin DOMAIN Serialize(builder)
    /\ calls = <<>> => DOMAIN Serialize(builder) = RequiredFields

(* ---- C2 ---- *)

\* C2: when body, draft and maintainer_can_modify are all set, the payload has
\* exactly the six documented keys (none for the handler), each carrying the
\* value given at construction or by the field's last configuration call; the
\* test's builder serializes to the test's JSON object.
C2_SerializationCompleteness ==
    AllSet =>
      /\ DOMAIN Serialize(builder) =
            {"title", "head", "base", "body", "draft", "maintainer_can_modify"}
      /\ Serialize(builder).title = JString(given.title)
      /\ Serialize(builder).head = JString(given.head)
      /\ Serialize(builder).base = JString(given.base)
      /\ Serialize(builder).body = JString(calls[LastIndex(calls, "body")][2][1])
      /\ Serialize(builder).draft = JBool(calls[LastIndex(calls, "draft")][2][1])
      /\ Serialize(builder).maintainer_can_modify =
            JBool(calls[LastIndex(calls, "maintainer_can_modify")][2][1])
      /\ ( /\ given.title = "test-pr" /\ given.head = "master" /\ given.base = "branch"
           /\ calls = << <<"body", Some("testing...")>>, <<"draft", Some(TRUE)>>,
                         <<"maintainer_can_modify", Some(TRUE)>> >> )
         => Serialize(builder) =
              [ title |-> <<"string", "test-pr">>,
                head |-> <<"string", "master">>,
                base |-> <<"string", "branch">>,
                body |-> <<"string", "testing...">>,
                draft |-> <<"bool", TRUE>>,
                maintainer_can_modify |-> <<"bool", TRUE>> ]

C2_Witness ==
    /\ given.title = "test-pr" /\ given.head = "master" /\ given.base = "branch"
    /\ calls = << <<"body", Some("testing...")>>, <<"draft", Some(TRUE)>>,
                  <<"maintainer_can_modify", Some(TRUE)>> >>
    /\ AllSet

(* ---- C3 ---- *)

\* C3: whatever configuration calls were made, the builder's title, head and
\* base and the payload's title, head and base entries are the values passed
\* to new(), they are always present, and the handler is the one passed to new().
C3_RequiredFieldImmutability ==
    /\ builder.title = given.title
    /\ builder.head = given.head
    /\ builder.base = given.base
    /\ builder.handler = given.handler
    /\ RequiredFields \subseteq DOMAIN Serialize(builder)
    /\ Serialize(builder).title = JString(given.title)
    /\ Serialize(builder).head = JString(given.head)
    /\ Serialize(builder).base = JString(given.base)

C3_Witness ==
    /\ LastIndex(calls, "body") > 0
    /\ LastIndex(calls, "draft") > 0
    /\ LastIndex(calls, "maintainer_can_modify") > 0
    /\ builder.body = None
    /\ builder.draft # None
    /\ given.head # "master"
    /\ builder.head = given.head

(* ---- C4 ---- *)

\* the last call of each method decides the field and its payload entry, and
\* dropping an overwritten earlier call changes nothing
C4_LastValueWins ==
    /\ \A m \in OptionalFields :
          LET i == LastIndex(calls, m) IN
          i > 0 =>
            /\ builder[m] = calls[i][2]
            /\ calls[i][2] # None =>
                  Serialize(builder)[m] =
                     IF m = "body" THEN JString(calls[i][2][1]) ELSE JBool(calls[i][2][1])
    /\ \A i \in 1..Len(calls) :
          (\E j \in (i + 1)..Len(calls) : calls[j][1] = calls[i][1]) =>
            /\ builder = Replay(Fresh, RemoveAt(calls, i))
            /\ Serialize(builder) = Serialize(Replay(Fresh, RemoveAt(calls, i)))

\* repeating the call just made leaves the builder as it is
C4_RepeatIsNoOp ==
    (calls' # calls /\ Len(calls) > 0 /\ calls'[Len(calls')] = calls[Len(calls)])
       => builder' = builder

\* C4: a later call of a configuration method overwrites an earlier one of the
\* same method: the payload reflects only the last value and is the one obtained
\* had the earlier call never been made; the same call twice in a row gives the
\* same builder as once.
C4_IdempotentOverwrite == [](C4_LastValueWins) /\ [][C4_RepeatIsNoOp]_vars

C4_Witness ==
    /\ Len(calls) = 3
    /\ calls[1] = <<"body", Some("testing...")>>
    /\ calls[2][1] = "draft"
    /\ calls[3] = <<"body", Some("hello world!")>>
    /\ builder.body = Some("hello world!")

(* ---- C5 ---- *)

\* C5: the path handed to the transport is "/repos/" + owner + "/" + repo +
\* "/pulls" with the owner and repo of the handler given to new(); for
\* rust-lang and rust it is /repos/rust-lang/rust/pulls.
C5_PathConstruction ==
    \A i \in 1..Len(posts) :
        /\ posts[i].path =
              "/repos/" \o given.handler.owner \o "/" \o given.handler.repo \o "/pulls"
        /\ (given.handler.owner = "rust-lang" /\ given.handler.repo = "rust")
              => posts[i].path = "/repos/rust-lang/rust/pulls"

C5_Witness ==
    /\ Len(posts) = 1
    /\ given.handler = [owner |-> "rust-lang", repo |-> "rust"]
    /\ posts[1].path = "/repos/rust-lang/rust/pulls"
    /\ calls # <<>>

(* ---- C6 ---- *)

C6_PostsMatchPhase ==
    /\ phase = "accumulating" => posts = <<>>
    /\ phase = "sent" =>
          /\ Len(posts) = 1
          /\ posts[1].path = url(given.handler)
          /\ posts[1].payload = Serialize(Replay(Fresh, calls))

C6_PostOnlyBySend ==
    posts' # posts => (phase = "accumulating" /\ phase' = "sent" /\ posts = <<>>)

\* C6: send() makes exactly one post on the transport, with the path and the
\* serialization of the builder as configured at that moment; nothing is posted
\* before send, and nothing more after the transport answered, success or failure.
C6_SingleDelegatedCall == [](C6_PostsMatchPhase) /\ [][C6_PostOnlyBySend]_vars

C6_Witness ==
    /\ result # None
    /\ result[1][1] = "Err"
    /\ Len(posts) = 1
    /\ Len(calls) >= 2

(* ---- C7 ---- *)

\* C7: send() returns exactly what the transport returned for the post: the
\* entity on success, the same failure on failure, and nothing before the
\* transport answered.
C7_ErrorPassThrough ==
    /\ result = transport
    /\ result # None =>
          /\ result[1] \in TransportResults
          /\ transport[1][1] = "Err" => result[1][1] = "Err"
          /\ transport[1][1] = "Ok" => result[1][1] = "Ok"

C7_Witness ==
    /\ transport = Some(<<"Err", "GitHub">>)
    /\ result = Some(<<"Err", "GitHub">>)

(* ---- C8 ---- *)

C8_TwoPhases ==
    /\ phase \in {"accumulating", "sent"}
    /\ Len(posts) <= 1
    /\ (posts # <<>>) <=> (phase = "sent")

C8_SentIsFinal ==
    phase = "sent" =>
       /\ phase' = "sent"
       /\ builder' = builder
       /\ calls' = calls
       /\ posts' = posts

C8_ConfigKeepsAccumulating ==
    calls' # calls => (phase = "accumulating" /\ phase' = "accumulating")

\* C8: a builder is either accumulating or sent; configuration calls keep it
\* accumulating, send() moves it to sent for good, after which no configuration
\* call and no second send() reaches it, so it is sent at most once.
C8_OneShotLifecycle ==
    [](C8_TwoPhases) /\ [][C8_SentIsFinal]_vars /\ [][C8_ConfigKeepsAccumulating]_vars

C8_Witness ==
    /\ phase = "sent"
    /\ transport # None
    /\ Len(calls) < MaxCalls
    /\ Len(posts) = 1

(* ---- C9 ---- *)

\* C9: calling a configuration method with None leaves the field unset whatever
\* it was before, and the builder and its payload are those of a builder on which
\* that method was never called; calling it with a value leaves the field set to
\* that value.
C9_ClearingWithNone ==
    \A m \in OptionalFields :
        LET i == LastIndex(calls, m) IN
        i > 0 =>
          IF calls[i][2] = None
          THEN /\ builder[m] = None
               /\ builder[m] = Fresh[m]
               /\ builder = Replay(Fresh, Without(calls, m))
               /\ Serialize(builder) = Serialize(Replay(Fresh, Without(calls, m)))
          ELSE /\ Len(builder[m]) = 1
               /\ builder[m][1] = calls[i][2][1]

C9_Witness ==
    /\ Len(calls) = 3
    /\ calls[1] = <<"draft", Some(TRUE)>>
    /\ calls[2][1] = "body"
    /\ calls[2][2] # None
    /\ calls[3] = <<"draft", None>>
    /\ builder.draft = None

(* ---- C10 ---- *)

C10_OrderIrrelevant ==
    /\ builder = Replay(Fresh, LastCalls(calls))
    /\ Serialize(builder) = Serialize(Replay(Fresh, LastCalls(calls)))
    /\ \A a \in BodyArgs, d \in BoolArgs, c \in BoolArgs :
          /\ draft(body(builder, a), d) = body(draft(builder, d), a)
          /\ maintainer_can_modify(body(builder, a), c) =
                body(maintainer_can_modify(builder, c), a)
          /\ maintainer_can_modify(draft(builder, d), c) =
                draft(maintainer_can_modify(builder, c), d)

C10_OnlyOwnField ==
    calls' # calls =>
       \A m \in OptionalFields \ {calls'[Len(calls')][1]} : builder'[m] = builder[m]

\* C10: a configuration call changes only its own field, so calls on different
\* fields commute: the builder and the payload depend only on the last call made
\* for each field, not on the order of the calls.
C10_Independence == [](C10_OrderIrrelevant) /\ [][C10_OnlyOwnField]_vars

C10_Witness ==
    /\ Len(calls) = 3
    /\ calls[1][1] = "maintainer_can_modify"
    /\ calls[2][1] = "draft"
    /\ calls[3][1] = "body"
    /\ AllSet

====
